---- MODULE Spec2Model ----
(***************************************************************************)
(* StreamConnection (packages/sdk/src/types.ts): one server-sent-event     *)
(* subscription with auto-reconnect, backoff timer and channel listeners.  *)
(*                                                                         *)
(* The whole connection is one record, `conn`.  Its first group of fields  *)
(* are the private fields of the class; the second group are observer      *)
(* fields that record what the connection did (callbacks fired, handles    *)
(* created and closed) so that properties about notifications can be       *)
(* stated.  Every method and every handler of the class is an operator     *)
(* from a connection record to a connection record, so that a callback     *)
(* that calls back into the connection (connect() or disconnect() from     *)
(* inside an on-connect / on-disconnect / on-error callback) is the        *)
(* composition of operators, executed at the place the code invokes the    *)
(* callbacks.                                                              *)
(***************************************************************************)
EXTENDS Integers, Sequences, FiniteSets, TLC

\* ------------------------------------------------------------------ bounds

\* options.maxReconnectAttempts ranges over 0..MaxAttemptsBound.
MaxAttemptsBound == 2

\* At most MaxRegistrations calls of on() per connection.
MaxRegistrations == 3

\* Transport errors since the last open are capped at
\* MaxAttemptsBound + FailSlack (enough to pass exhaustion and fail again).
FailSlack == 2

\* At most MaxSubscriptions calls of on() and once() per connection in the
\* subscription specification.
MaxSubscriptions == 2

\* At most MaxInstances connections created by the registry.
MaxInstances == 2

\* The 300-second windows 0..MaxWindow of the clock.
MaxWindow == 4

MaxFails == MaxAttemptsBound + FailSlack

\* ------------------------------------------------------------ value sets

\* The channel names the streams use (trade, update, connected, message).
Channels == {"trade", "update", "connected", "message"}

\* Identities of the caller's channel callbacks.
Callbacks == {"A", "B"}

\* What a lifecycle callback (on-connect, on-disconnect, on-error) may do
\* while it runs: nothing, or call back into the connection.
CallbackActs == {"none", "connect", "disconnect"}

\* Raw event texts the transport may deliver: one well-formed, one not.
Texts == {"{\"id\":\"t1\"}", "{\"id\":"}

\* conn: one StreamConnection.  registry: a ClawdVaultStreaming with the
\* connections it created.  auth: one createAuthSignature computation.
\* client: one ClawdVaultClient and the last request it made.
VARIABLES conn, registry, auth, client

vars == <<conn, registry, auth, client>>

\* What the actions of a single connection leave alone.
others == <<registry, auth, client>>

\* --------------------------------------------------------------- helpers

Log(s, e) == [s EXCEPT !.trace = Append(@, e)]

Events(s) == {s.trace[i] : i \in DOMAIN s.trace}

\* JSON.parse: the decoded value, or a SyntaxError.
JSONParse(data) ==
  IF data = "{\"id\":\"t1\"}"
  THEN [ok |-> TRUE, value |-> [id |-> "t1"]]
  ELSE [ok |-> FALSE, value |-> [id |-> "SyntaxError"]]

\* `this.eventSource = null`
NoSource == [readyState |-> "NULL", attached |-> [ch \in Channels |-> 0]]

\* `if (this.eventSource)`
HasSource(s) == s.eventSource.readyState # "NULL"

\* A handle that was created and on which close() has not been called.
Unclosed(es) == es.readyState \in {"CONNECTING", "OPEN", "FAILED"}

\* new EventSourceImpl(url) with one addEventListener per listeners key.
NewEventSource(s) ==
  [readyState |-> "CONNECTING",
   attached |-> [ch \in Channels |-> IF s.listeners[ch].has THEN 1 ELSE 0]]

\* eventSource.close()
close(s) ==
  IF HasSource(s)
  THEN Log([s EXCEPT !.eventSource.readyState = "CLOSED"], "close")
  ELSE s

\* `this.eventSource = null`: a handle dropped while still unclosed stays
\* alive in the runtime (counted in `leaked`).
DropSource(s) ==
  [s EXCEPT !.eventSource = NoSource,
            !.leaked = @ + (IF Unclosed(s.eventSource) THEN 1 ELSE 0)]

\* Handles created and not yet closed.
LiveHandles(s) == s.leaked + (IF Unclosed(s.eventSource) THEN 1 ELSE 0)

\* ------------------------------------------------------------- methods

\* Mutant of connect: without the `if (this.eventSource) return` guard.
connect_NoGuard(s) ==
  Log([s EXCEPT !.isManuallyDisconnected = FALSE,
                !.leaked = @ + (IF Unclosed(s.eventSource) THEN 1 ELSE 0),
                !.eventSource = NewEventSource(s)], "create")

connect(s) ==
  IF HasSource(s)
  THEN s
  ELSE Log([s EXCEPT !.isManuallyDisconnected = FALSE,
                     !.eventSource = NewEventSource(s)], "create")

\* connect() called by the caller (not by the reconnect timer).
CallerConnect(s) ==
  connect(Log([s EXCEPT !.clean = FALSE, !.exhausted = FALSE,
                        !.repeatTerminal = FALSE, !.rearmed = FALSE,
                        !.closedByCaller = FALSE], "call:connect"))

RECURSIVE disconnect(_, _)
RECURSIVE CallerDisconnect(_, _)

\* callbacks.forEach(cb => cb(...)) for one of the lifecycle callback sets;
\* `act` is what the callbacks do while they run.
FireCallbacks(s, kind, act) ==
  LET s1 == Log(s, kind)
  IN CASE act = "connect" -> CallerConnect(s1)
       [] act = "disconnect" -> CallerDisconnect(s1, "none")
       [] OTHER -> s1

\* this.onDisconnectCallbacks.forEach(cb => cb())
FireDisconnect(s, act) ==
  FireCallbacks([s EXCEPT !.discWithoutOpen = @ \/ ~s.openedSince,
                          !.openedSince = FALSE,
                          !.everDisconnected = TRUE], "onDisconnect", act)

\* Mutant of disconnect: forgets `this.isConnected = false`.
disconnect_StaysConnected(s, act) ==
  LET s1 == [s EXCEPT !.isManuallyDisconnected = TRUE]
      s2 == IF s1.reconnectTimeout # "null"
            THEN Log([s1 EXCEPT !.reconnectTimeout = "null"], "clearTimeout")
            ELSE s1
      s3 == IF HasSource(s2) THEN DropSource(close(s2)) ELSE s2
  IN IF s3.isConnected THEN FireDisconnect(s3, act) ELSE s3

disconnect(s, act) ==
  LET s1 == [s EXCEPT !.isManuallyDisconnected = TRUE]
      s2 == IF s1.reconnectTimeout # "null"
            THEN Log([s1 EXCEPT !.reconnectTimeout = "null"], "clearTimeout")
            ELSE s1
      s3 == IF HasSource(s2) THEN DropSource(close(s2)) ELSE s2
  IN IF s3.isConnected
     THEN FireDisconnect([s3 EXCEPT !.isConnected = FALSE], act)
     ELSE s3

\* disconnect() called by the caller.
CallerDisconnect(s, act) ==
  disconnect(Log([s EXCEPT !.clean = FALSE, !.exhausted = FALSE,
                           !.repeatTerminal = FALSE, !.rearmed = FALSE,
                           !.closedByCaller = TRUE], "call:disconnect"), act)

\* No backoff delay armed since the last open.
NoDelay == [num |-> 0, den |-> 1]

\* Mutant of onopen: forgets `this.reconnectAttempts = 0`.
onopen_KeepsAttempts(s, act) ==
  FireCallbacks([s EXCEPT !.isConnected = TRUE,
                          !.everOpened = TRUE,
                          !.openedSince = TRUE,
                          !.clean = TRUE,
                          !.fails = 0,
                          !.terminals = 0,
                          !.scheduled = 0,
                          !.delay = NoDelay,
                          !.prevDelay = NoDelay], "onConnect", act)

\* eventSource.onopen
onopen(s, act) ==
  FireCallbacks([s EXCEPT !.isConnected = TRUE,
                          !.reconnectAttempts = 0,
                          !.everOpened = TRUE,
                          !.openedSince = TRUE,
                          !.clean = TRUE,
                          !.fails = 0,
                          !.terminals = 0,
                          !.scheduled = 0,
                          !.delay = NoDelay,
                          !.prevDelay = NoDelay], "onConnect", act)

\* The 'Max reconnect attempts (N) reached' round of scheduleReconnect.
FireTerminal(s, act) ==
  FireCallbacks([s EXCEPT !.terminals = @ + 1,
                          !.repeatTerminal = @ \/ s.exhausted,
                          !.exhausted = TRUE], "onError:max", act)

RECURSIVE Pow(_, _)
Pow(b, n) == IF n = 0 THEN 1 ELSE b * Pow(b, n - 1)

\* Math.pow(1.5, n) as the exact fraction 3^n / 2^n.
MathPow15(n) == [num |-> Pow(3, n), den |-> Pow(2, n)]

\* reconnectDelay * Math.pow(1.5, reconnectAttempts - 1), as a fraction.
BackoffDelay(s) ==
  LET p == MathPow15(s.reconnectAttempts - 1)
  IN [num |-> s.options.reconnectDelay * p.num, den |-> p.den]

\* setTimeout(..., delay): arms the timer; the observer keeps the delay
\* armed before it (since the last open) in prevDelay.
ArmTimer(s, delay) ==
  Log([s EXCEPT !.reconnectTimeout = "armed",
                !.prevDelay = s.delay,
                !.delay = delay,
                !.scheduled = @ + 1,
                !.rearmed = @ \/ s.exhausted], "setTimeout")

\* Mutant of scheduleReconnect: `>` instead of `>=` (one attempt too many).
scheduleReconnect_OffByOne(s, act) ==
  LET s1 == IF s.reconnectTimeout # "null"
            THEN Log([s EXCEPT !.reconnectTimeout = "stale"], "clearTimeout")
            ELSE s
  IN IF s1.reconnectAttempts > s1.options.maxReconnectAttempts
     THEN FireTerminal(s1, act)
     ELSE LET s2 == [s1 EXCEPT !.reconnectAttempts = @ + 1]
          IN ArmTimer(s2, BackoffDelay(s2))

\* Mutant of scheduleReconnect: the exponent is the attempt counter itself.
scheduleReconnect_ExponentOff(s, act) ==
  LET s1 == IF s.reconnectTimeout # "null"
            THEN Log([s EXCEPT !.reconnectTimeout = "stale"], "clearTimeout")
            ELSE s
  IN IF s1.reconnectAttempts >= s1.options.maxReconnectAttempts
     THEN FireTerminal(s1, act)
     ELSE LET s2 == [s1 EXCEPT !.reconnectAttempts = @ + 1]
              p == MathPow15(s2.reconnectAttempts)
          IN ArmTimer(s2, [num |-> s2.options.reconnectDelay * p.num,
                           den |-> p.den])

scheduleReconnect(s, act) ==
  LET s1 == IF s.reconnectTimeout # "null"
            THEN Log([s EXCEPT !.reconnectTimeout = "stale"], "clearTimeout")
            ELSE s
  IN IF s1.reconnectAttempts >= s1.options.maxReconnectAttempts
     THEN FireTerminal(s1, act)
     ELSE LET s2 == [s1 EXCEPT !.reconnectAttempts = @ + 1]
          IN ArmTimer(s2, BackoffDelay(s2))

\* Mutant of onerror: on-disconnect fired without the wasConnected test.
onerror_AlwaysDisconnect(s, d, e, t) ==
  LET s1 == [s EXCEPT !.isConnected = FALSE, !.fails = @ + 1]
      s2 == FireDisconnect(s1, d)
      s3 == FireCallbacks(s2, "onError", e)
  IN IF s3.options.autoReconnect /\ ~s3.isManuallyDisconnected
     THEN scheduleReconnect(s3, t)
     ELSE s3

\* Mutant of onerror: reconnects without testing isManuallyDisconnected.
onerror_IgnoresManual(s, d, e, t) ==
  LET wasConnected == s.isConnected
      s1 == [s EXCEPT !.isConnected = FALSE, !.fails = @ + 1]
      s2 == IF wasConnected THEN FireDisconnect(s1, d) ELSE s1
      s3 == FireCallbacks(s2, "onError", e)
  IN IF s3.options.autoReconnect THEN scheduleReconnect(s3, t) ELSE s3

\* eventSource.onerror; d, e, t are what the on-disconnect, on-error and
\* terminal on-error callbacks do while they run.
onerror(s, d, e, t) ==
  LET wasConnected == s.isConnected
      s1 == [s EXCEPT !.isConnected = FALSE, !.fails = @ + 1]
      s2 == IF wasConnected THEN FireDisconnect(s1, d) ELSE s1
      s3 == FireCallbacks(s2, "onError", e)
  IN IF s3.options.autoReconnect /\ ~s3.isManuallyDisconnected
     THEN scheduleReconnect(s3, t)
     ELSE s3

\* Mutant of reconnectTimer: drops the old handle without closing it.
reconnectTimer_NoClose(s) == connect(DropSource(s))

\* Mutant of reconnectTimer: tears down but never reconnects.
reconnectTimer_NoConnect(s) == DropSource(close(s))

\* The setTimeout callback of scheduleReconnect.
reconnectTimer(s) == connect(DropSource(close(s)))

\* ----------------------------------------------------- channel listeners

\* The listeners entry of a channel: `has` is listeners.has(channel), `set`
\* the callbacks of its Set and `order` the same callbacks in insertion
\* order (the order Set.forEach visits them).
NoListeners == [has |-> FALSE, set |-> {}, order |-> <<>>]

\* The k-th wrapper closure created by once().
WrapperName(k) == "once" \o ToString(k)

\* callback is one of the wrapper closures created by once().
IsWrapper(s, callback) ==
  \E k \in DOMAIN s.onces : WrapperName(k) = callback

WrapperIndex(s, callback) ==
  CHOOSE k \in DOMAIN s.onces : WrapperName(k) = callback

\* Set.delete on the insertion-ordered elements.
RECURSIVE Without(_, _)
Without(seq, x) ==
  IF seq = <<>> THEN <<>>
  ELSE IF Head(seq) = x THEN Without(Tail(seq), x)
       ELSE <<Head(seq)>> \o Without(Tail(seq), x)

\* on(eventType, callback): the first callback of a channel creates its key
\* and, if a handle exists, attaches a channel listener to it.
on(s, eventType, callback) ==
  LET s1 == IF ~s.listeners[eventType].has
            THEN LET s0 == [s EXCEPT !.listeners[eventType] =
                                        [has |-> TRUE, set |-> {},
                                         order |-> <<>>]]
                 IN IF HasSource(s0)
                    THEN [s0 EXCEPT !.eventSource.attached[eventType] = @ + 1]
                    ELSE s0
            ELSE s
  IN [s1 EXCEPT !.listeners[eventType].set = @ \cup {callback},
                !.listeners[eventType].order =
                   IF callback \in s1.listeners[eventType].set
                   THEN @ ELSE Append(@, callback),
                !.regs = @ + 1]

\* The function on(eventType, callback) returns: deletes `callback` from the
\* channel's Set, if the channel has one.
unsubscribe(s, eventType, callback) ==
  IF s.listeners[eventType].has
  THEN [s EXCEPT !.listeners[eventType].set = @ \ {callback},
                 !.listeners[eventType].order = Without(@, callback)]
  ELSE s

\* Mutant of onceWrapper: invokes the callback and stays registered.
onceWrapper_StaysRegistered(s, eventType, k, value) ==
  LET cb == s.onces[k].callback
  IN [s EXCEPT !.received[cb] = Append(@, value),
               !.onces[k].calls = @ + 1,
               !.onces[k].early =
                  @ \/ (WrapperName(k) \in s.listeners[eventType].set)]

\* The closure once() registers: `unsubscribe(); callback(data)`.  The
\* observer counts the invocations of the callback and notes whether the
\* wrapper was still registered when the callback was invoked.
onceWrapper(s, eventType, k, value) ==
  LET s1 == unsubscribe(s, eventType, WrapperName(k))
      cb == s1.onces[k].callback
  IN [s1 EXCEPT !.received[cb] = Append(@, value),
                !.onces[k].calls = @ + 1,
                !.onces[k].early =
                   @ \/ (WrapperName(k) \in s1.listeners[eventType].set)]

\* once(eventType, callback): on() with a new wrapper closure.
once(s, eventType, callback) ==
  LET s1 == [s EXCEPT !.onces =
                Append(@, [callback |-> callback, calls |-> 0,
                           early |-> FALSE])]
  IN on(s1, eventType, WrapperName(Len(s1.onces)))

\* cb(parsed) for one element of the channel's Set.
Invoke(s, eventType, callback, value) ==
  IF IsWrapper(s, callback)
  THEN onceWrapper(s, eventType, WrapperIndex(s, callback), value)
  ELSE [s EXCEPT !.received[callback] = Append(@, value)]

\* The invoked element throws: the caller's callback behind it is one of
\* those that throw during this delivery.
Throws(s, callback) ==
  IF IsWrapper(s, callback)
  THEN s.onces[WrapperIndex(s, callback)].callback \in s.throwing
  ELSE callback \in s.throwing

\* callbacks.forEach(cb => cb(parsed)): visits the elements in insertion
\* order, skips one deleted before its turn, and is left by the first
\* exception (which handleEvent's catch swallows).
RECURSIVE forEach(_, _, _, _)
forEach(s, eventType, todo, value) ==
  IF todo = <<>>
  THEN s
  ELSE IF Head(todo) \notin s.listeners[eventType].set
       THEN forEach(s, eventType, Tail(todo), value)
       ELSE LET s1 == Invoke(s, eventType, Head(todo), value)
            IN IF Throws(s, Head(todo))
               THEN s1
               ELSE forEach(s1, eventType, Tail(todo), value)

\* Mutant of handleEvent: a parse error is reported to the on-error
\* callbacks instead of being swallowed.
handleEvent_ParseErrorSurfaced(s, eventType, data) ==
  IF ~s.listeners[eventType].has
  THEN s
  ELSE LET parsed == JSONParse(data)
       IN IF parsed.ok
          THEN forEach(s, eventType, s.listeners[eventType].order,
                       parsed.value)
          ELSE Log(s, "onError")

\* handleEvent(eventType, data): parse, then invoke every callback of the
\* channel's set with the parsed value; a parse error is swallowed.
handleEvent(s, eventType, data) ==
  IF ~s.listeners[eventType].has
  THEN s
  ELSE LET parsed == JSONParse(data)
       IN IF parsed.ok
          THEN forEach(s, eventType, s.listeners[eventType].order,
                       parsed.value)
          ELSE s

RECURSIVE Repeat(_, _, _, _)
\* n handlers attached for the same event each call handleEvent.
Repeat(n, s, eventType, data) ==
  IF n = 0 THEN s ELSE Repeat(n - 1, handleEvent(s, eventType, data), eventType, data)

\* One event of type eventType arrives on the handle: the onmessage
\* property handles type 'message', and every listener attached with
\* addEventListener(eventType, ...) handles it as well.
dispatchEvent(s, eventType, data) ==
  LET viaOnMessage == IF eventType = "message"
                      THEN handleEvent(s, "message", data)
                      ELSE s
  IN Repeat(s.eventSource.attached[eventType], viaOnMessage, eventType, data)

\* --------------------------------------------------------------- state

\* options.reconnectDelay in ms: the default and a short one.
Delays == {3000, 100}

Options ==
  [autoReconnect : BOOLEAN,
   reconnectDelay : Delays,
   maxReconnectAttempts : 0..MaxAttemptsBound]

NewConnection(options) ==
  [options |-> options,
   eventSource |-> NoSource,
   reconnectAttempts |-> 0,
   reconnectTimeout |-> "null",
   listeners |-> [ch \in Channels |-> NoListeners],
   isConnected |-> FALSE,
   isManuallyDisconnected |-> FALSE,
   \* observer fields
   received |-> [cb \in Callbacks |-> <<>>],
   lastEvent |-> [channel |-> "", data |-> ""],
   regs |-> 0,
   throwing |-> {},
   onces |-> <<>>,
   handles |-> <<>>,
   trace |-> <<>>,
   lastOp |-> "new",
   leaked |-> 0,
   everOpened |-> FALSE,
   openedSince |-> FALSE,
   everDisconnected |-> FALSE,
   discWithoutOpen |-> FALSE,
   clean |-> FALSE,
   fails |-> 0,
   terminals |-> 0,
   scheduled |-> 0,
   delay |-> NoDelay,
   prevDelay |-> NoDelay,
   exhausted |-> FALSE,
   repeatTerminal |-> FALSE,
   rearmed |-> FALSE,
   closedByCaller |-> FALSE]

\* The private fields of the class (without the observer fields).
Program(s) ==
  [options |-> s.options, eventSource |-> s.eventSource,
   reconnectAttempts |-> s.reconnectAttempts,
   reconnectTimeout |-> s.reconnectTimeout,
   listeners |-> s.listeners, isConnected |-> s.isConnected,
   isManuallyDisconnected |-> s.isManuallyDisconnected]

\* Start of one operation: the trace holds what this operation does.
Begin(s, op) ==
  [s EXCEPT !.trace = <<>>, !.lastOp = op,
            !.received = [cb \in Callbacks |-> <<>>],
            !.throwing = {},
            !.lastEvent = [channel |-> "", data |-> ""]]

\* The terminal error was emitted with the attempt counter at its maximum,
\* and neither the caller nor an open has intervened.
Exhausted(s) ==
  s.exhausted /\ s.reconnectAttempts >= s.options.maxReconnectAttempts

\* ------------------------------------------------------------- registry

\* The `type` argument of ClawdVaultStreaming.disconnect and the three
\* stream methods.
Topics == {"trades", "token", "chat"}

Mints == {"M", "N"}

\* `${type}:${mint}`
Key(type, mint) == type \o ":" \o mint

\* The mints each topic is streamed for: two tokens' trades, one token's
\* updates and chat.
MintsOf(type) == IF type = "trades" THEN Mints ELSE {"M"}

Keys == {Key(type, mint) : type \in Topics, mint \in Mints}

\* The keys in use.
UsedKeys == UNION {{Key(type, mint) : mint \in MintsOf(type)} : type \in Topics}

\* The StreamingOptions a registry passes to every connection it creates.
RegistryOptions ==
  [autoReconnect |-> TRUE, reconnectDelay |-> 3000, maxReconnectAttempts |-> 1]

\* new ClawdVaultStreaming(baseUrl, options).  connections[key] is the
\* StreamConnection stored under key (0: no entry), as an index into
\* `instances`, the connections this registry has created (callers keep
\* the ones they were handed).  Observer fields: the last operation and its
\* key, the instance the last stream call returned, the instance handed out
\* for the key before that call (0: none since the key was last removed),
\* the keys each instance was ever returned for, and the phases of the
\* entries the last disconnectAll() found.
NoRegistry ==
  [connections |-> [k \in Keys |-> 0],
   instances |-> <<>>,
   options |-> RegistryOptions,
   lastOp |-> "new",
   lastKey |-> "",
   returned |-> 0,
   prior |-> 0,
   handed |-> [k \in Keys |-> 0],
   handedFor |-> <<>>,
   swept |-> {}]

\* The observer fields about the life cycle that the registry's and the
\* subscriptions' properties do not read are not tracked there.
Untracked(c) ==
  [c EXCEPT !.everOpened = FALSE, !.openedSince = FALSE,
            !.everDisconnected = FALSE, !.discWithoutOpen = FALSE,
            !.clean = FALSE, !.fails = 0, !.terminals = 0, !.scheduled = 0,
            !.delay = NoDelay, !.prevDelay = NoDelay,
            !.repeatTerminal = FALSE, !.rearmed = FALSE,
            !.closedByCaller = FALSE]

\* Start of one registry-level operation: every instance's trace holds what
\* this operation does to it.
BeginAll(r, op, key) ==
  [r EXCEPT !.instances = [i \in DOMAIN @ |-> Untracked(Begin(@[i], "idle"))],
            !.lastOp = op, !.lastKey = key,
            !.returned = 0, !.prior = 0, !.swept = {}]

\* Mutant of GetOrCreate: creates a connection without testing has(key).
GetOrCreate_AlwaysCreates(r, key) ==
  LET r1 == [r EXCEPT !.instances = Append(@, NewConnection(r.options)),
                      !.handedFor = Append(@, {}),
                      !.connections[key] = Len(r.instances) + 1]
      id == r1.connections[key]
  IN [r1 EXCEPT !.returned = id,
                !.prior = r.handed[key],
                !.handed[key] = id,
                !.handedFor[id] = @ \cup {key}]

\* The body the three stream methods share: create and store a connection
\* if the key has none, return the one stored under the key.
GetOrCreate(r, key) ==
  LET r1 == IF r.connections[key] = 0
            THEN [r EXCEPT !.instances = Append(@, NewConnection(r.options)),
                           !.handedFor = Append(@, {}),
                           !.connections[key] = Len(r.instances) + 1]
            ELSE r
      id == r1.connections[key]
  IN [r1 EXCEPT !.returned = id,
                !.prior = r.handed[key],
                !.handed[key] = id,
                !.handedFor[id] = @ \cup {key}]

streamTrades(r, mint) == GetOrCreate(r, Key("trades", mint))

streamToken(r, mint) == GetOrCreate(r, Key("token", mint))

streamChat(r, mint) == GetOrCreate(r, Key("chat", mint))

\* Mutant of registryDisconnect: removes the entry, leaves the connection.
registryDisconnect_OnlyDeletes(r, type, mint, act) ==
  [r EXCEPT !.connections[Key(type, mint)] = 0,
            !.handed[Key(type, mint)] = 0]

\* ClawdVaultStreaming.disconnect(type, mint); act is what the on-disconnect
\* callbacks of the connection do while they run.
registryDisconnect(r, type, mint, act) ==
  LET key == Key(type, mint)
      id == r.connections[key]
  IN IF id # 0
     THEN [r EXCEPT !.instances[id] =
                       CallerDisconnect(Begin(@, "disconnect"), act),
                    !.connections[key] = 0,
                    !.handed[key] = 0]
     ELSE r

\* Never connected, Connecting, Open, Reconnecting (timer armed), Exhausted
\* (terminal error emitted), or Failed (the transport gave up, no retry).
Phase(c) ==
  CASE Exhausted(c) -> "Exhausted"
    [] c.reconnectTimeout = "armed" -> "Reconnecting"
    [] c.eventSource.readyState = "OPEN" -> "Open"
    [] c.eventSource.readyState = "CONNECTING" -> "Connecting"
    [] c.eventSource.readyState = "NULL" -> "Idle"
    [] OTHER -> "Failed"

\* The connections stored in the registry.
Entries(r) == {r.connections[k] : k \in Keys} \ {0}

\* Mutant of disconnectAll: clears the map without disconnecting.
disconnectAll_OnlyClears(r, act) ==
  [r EXCEPT !.connections = [k \in Keys |-> 0],
            !.handed = [k \in Keys |-> 0],
            !.swept = {Phase(r.instances[i]) : i \in Entries(r)}]

\* ClawdVaultStreaming.disconnectAll()
disconnectAll(r, act) ==
  [r EXCEPT !.instances =
               [i \in DOMAIN @ |->
                  IF i \in Entries(r)
                  THEN CallerDisconnect(Begin(@[i], "disconnect"), act)
                  ELSE @[i]],
            !.connections = [k \in Keys |-> 0],
            !.handed = [k \in Keys |-> 0],
            !.swept = {Phase(r.instances[i]) : i \in Entries(r)}]

\* ----------------------------------------------------- auth signature

\* The `action` argument of createAuthSignature ("": not given).
Actions == {"", "chat", "react", "session"}

\* Payload objects, as their own properties in insertion order.
ChatPayload == <<[key |-> "mint", value |-> "M"],
                 [key |-> "message", value |-> "hi"]>>

Payloads ==
  {<<>>,
   ChatPayload,
   <<[key |-> "message", value |-> "hi"], [key |-> "mint", value |-> "M"]>>,
   <<[key |-> "action", value |-> "react"], [key |-> "emoji", value |-> "up"]>>}

\* Date.now() values in ms: seconds at the start, inside and at the end of
\* the windows 0..MaxWindow, with and without a fraction of a second.
Seconds == {w * 300 + off : w \in 0..MaxWindow, off \in {0, 99, 100, 299}}

Times == {sec * 1000 + ms : sec \in Seconds, ms \in {0, 999}}

\* (payload as any).action: the value of the property, or undefined ("").
RECURSIVE Property(_, _)
Property(payload, key) ==
  IF payload = <<>> THEN ""
  ELSE IF payload[Len(payload)].key = key
       THEN payload[Len(payload)].value
       ELSE Property(SubSeq(payload, 1, Len(payload) - 1), key)

\* JSON.stringify of an object with string-valued properties.
RECURSIVE Members(_)
Members(obj) ==
  IF obj = <<>> THEN ""
  ELSE "\"" \o Head(obj).key \o "\":\"" \o Head(obj).value \o "\""
       \o (IF Len(obj) > 1 THEN "," ELSE "") \o Members(Tail(obj))

JSONStringify(obj) == "{" \o Members(obj) \o "}"

\* Math.floor(Date.now() / 1000)
Timestamp(now) == now \div 1000

\* Mutant of Window: the timestamp itself, not quantized.
Window_NotQuantized(timestamp) == timestamp

\* Mutant of Window: rounds up to the end of the window.
Window_RoundsUp(timestamp) == ((timestamp + 299) \div 300) * 300

\* Math.floor(timestamp / 300) * 300
Window(timestamp) == (timestamp \div 300) * 300

\* action || payload.action || 'session'
AuthAction(action, payload) ==
  IF action # "" THEN action
  ELSE IF Property(payload, "action") # "" THEN Property(payload, "action")
       ELSE "session"

\* The data to sign: a fixed object for 'session', else a copy of payload.
SignData(authAction, payload) ==
  IF authAction = "session"
  THEN <<[key |-> "action", value |-> "create_session"]>>
  ELSE payload

\* `ClawdVault:${authAction}:${window}:${JSON.stringify(signData)}`
Message(action, payload, now) ==
  LET authAction == AuthAction(action, payload)
  IN "ClawdVault:" \o authAction \o ":" \o ToString(Window(Timestamp(now)))
       \o ":" \o JSONStringify(SignData(authAction, payload))

\* No signature computed yet.
NoAuth ==
  [phase |-> "none", action |-> "", payload |-> <<>>, now |-> 0,
   message |-> "", signature |-> <<>>, wallet |-> ""]

\* createAuthSignature(signer, payload, action) at Date.now() = now: the
\* signature is the signer's signature of the message bytes.
createAuthSignature(signer, payload, action, now) ==
  LET message == Message(action, payload, now)
  IN [phase |-> "signed", action |-> action, payload |-> payload,
      now |-> now, message |-> message,
      signature |-> <<"signed", signer, message>>,
      wallet |-> signer]

\* ------------------------------------------------------- request client

\* A JSON value of a response body (an object with its properties, or
\* null), or a body that is not JSON.
Object(props) == [type |-> "object", props |-> props]

JSONNull == [type |-> "null", props |-> <<>>]

NotJSON == [type |-> "text", props |-> <<>>]

\* undefined
Undefined == [type |-> "undefined", props |-> <<>>]

\* An error object: `status` 0 and `response` Undefined when not set.
ErrorOf(name, message) ==
  [name |-> name, message |-> message, status |-> 0, response |-> Undefined]

NoError == ErrorOf("", "")

NoHeaders ==
  [Authorization |-> "", XWallet |-> "", XSignature |-> <<>>, XAction |-> "",
   ContentType |-> ""]

\* new ClawdVaultClient(config): signer "" is no signer, sessionToken "" no
\* token, onError whether the hook is configured.  Observer fields: the last
\* method called, the options and response of its request, the request
\* sent, the signature computed for it, how it settled, the errors the
\* hook received, and the order of hook and throw.
NewClient(signer, sessionToken, onError) ==
  [signer |-> signer, sessionToken |-> sessionToken, onError |-> onError,
   lastOp |-> "new",
   auth |-> FALSE, action |-> "", tokenAtCall |-> "",
   sent |-> [method |-> "", path |-> "", headers |-> NoHeaders, body |-> ""],
   signerCalls |-> 0,
   signed |-> NoAuth,
   response |-> [status |-> 0, body |-> Undefined],
   outcome |-> "none", value |-> Undefined, error |-> NoError,
   hookCalls |-> <<>>,
   steps |-> <<>>,
   invalidated |-> FALSE]

NoClient == NewClient("", "", FALSE)

\* response.ok
Ok(response) == response.status >= 200 /\ response.status <= 299

\* response.statusText
StatusText(status) ==
  CASE status = 200 -> "OK"
    [] status = 401 -> "Unauthorized"
    [] OTHER -> ""

\* error.error || error.message || `HTTP ${response.status}`
ErrorMessage(error, status) ==
  IF Property(error.props, "error") # "" THEN Property(error.props, "error")
  ELSE IF Property(error.props, "message") # ""
       THEN Property(error.props, "message")
       ELSE "HTTP " \o ToString(status)

\* The part of request() after fetch: the response settles the promise.
Respond(c, response) ==
  LET c1 == [c EXCEPT !.response = response]
  IN IF Ok(response)
     THEN IF response.body.type = "text"
          THEN [c1 EXCEPT !.outcome = "rejected",
                          !.error = ErrorOf("SyntaxError", "Unexpected token"),
                          !.steps = Append(@, "throw")]
          ELSE [c1 EXCEPT !.outcome = "resolved", !.value = response.body]
     ELSE LET error == IF response.body.type = "text"
                       THEN Object(<<[key |-> "error",
                                      value |-> StatusText(response.status)]>>)
                       ELSE response.body
          IN IF error.type = "null"
             THEN [c1 EXCEPT !.outcome = "rejected",
                             !.error = ErrorOf("TypeError",
                                               "Cannot read properties of null"),
                             !.steps = Append(@, "throw")]
             ELSE LET err == [name |-> "Error",
                              message |-> ErrorMessage(error, response.status),
                              status |-> response.status,
                              response |-> error]
                      c2 == IF c1.onError
                            THEN [c1 EXCEPT !.hookCalls = Append(@, err),
                                            !.steps = Append(@, "onError")]
                            ELSE c1
                  IN [c2 EXCEPT !.outcome = "rejected", !.error = err,
                                !.steps = Append(@, "throw")]

\* Start of one client call.
BeginCall(c, op) ==
  [NewClient(c.signer, c.sessionToken, c.onError) EXCEPT
     !.lastOp = op, !.invalidated = c.invalidated]

\* The authentication headers request() computes.
AuthHeaders(c, options, signed) ==
  IF ~options.auth THEN NoHeaders
  ELSE IF c.sessionToken # ""
       THEN [NoHeaders EXCEPT !.Authorization = "Bearer " \o c.sessionToken]
       ELSE IF c.signer # "" /\ options.body.present
            THEN [NoHeaders EXCEPT
                    !.XWallet = signed.wallet,
                    !.XSignature = signed.signature,
                    !.XAction = options.action]
            ELSE NoHeaders

\* Mutant of Signs: the signer is used whenever the client has one.
Signs_BeforeBearer(c, options) ==
  options.auth /\ c.signer # "" /\ options.body.present

\* request() invokes createAuthSignature.
Signs(c, options) ==
  options.auth /\ c.sessionToken = "" /\ c.signer # "" /\ options.body.present

\* request(method, path, options), called at clock `now` and answered with
\* `response`.
request(c, method, path, options, now, response) ==
  LET signed == IF Signs(c, options)
                THEN createAuthSignature(c.signer, options.body.value,
                                         options.action, now)
                ELSE NoAuth
      authHeaders == AuthHeaders(c, options, signed)
      headers == IF options.body.present
                 THEN [authHeaders EXCEPT !.ContentType = "application/json"]
                 ELSE authHeaders
      c1 == [c EXCEPT
               !.auth = options.auth,
               !.action = options.action,
               !.tokenAtCall = c.sessionToken,
               !.signerCalls = IF Signs(c, options) THEN 1 ELSE 0,
               !.signed = signed,
               !.sent = [method |-> method, path |-> path,
                         headers |-> headers,
                         body |-> IF options.body.present
                                  THEN JSONStringify(options.body.value)
                                  ELSE ""]]
  IN Respond(c1, response)

\* options of request(): `body` absent or an object.
NoBody == [present |-> FALSE, value |-> <<>>]

Body(value) == [present |-> TRUE, value |-> value]

RequestOptions(body, authFlag, action) ==
  [body |-> body, auth |-> authFlag, action |-> action]

getChat(c, now, response) ==
  request(c, "GET", "/chat", RequestOptions(NoBody, FALSE, ""), now, response)

sendChat(c, params, now, response) ==
  request(c, "POST", "/chat", RequestOptions(Body(params), TRUE, "chat"),
          now, response)

addReaction(c, messageId, emoji, now, response) ==
  request(c, "POST", "/reactions",
          RequestOptions(Body(<<[key |-> "messageId", value |-> messageId],
                                [key |-> "emoji", value |-> emoji]>>),
                         TRUE, "react"),
          now, response)

removeReaction(c, messageId, emoji, now, response) ==
  request(c, "DELETE", "/reactions", RequestOptions(NoBody, TRUE, "unreact"),
          now, response)

updateProfile(c, params, now, response) ==
  request(c, "POST", "/profile", RequestOptions(Body(params), TRUE, "profile"),
          now, response)

createSession(c, now, response) ==
  request(c, "POST", "/auth/session",
          RequestOptions(Body(<<>>), TRUE, "session"), now, response)

validateSession(c, now, response) ==
  request(c, "GET", "/auth/session", RequestOptions(NoBody, TRUE, ""),
          now, response)

setSessionToken(c, token) == [c EXCEPT !.sessionToken = token]

\* The registry, the signature computation and the client are not in use.
OthersIdle == registry = NoRegistry /\ auth = NoAuth /\ client = NoClient

Init == (\E o \in Options : conn = NewConnection(o)) /\ OthersIdle

\* -------------------------------------------------------------- actions

Connect ==
  /\ conn' = CallerConnect(Begin(conn, "connect"))
  /\ UNCHANGED others

DisconnectWith(acts) ==
  \E act \in acts :
    /\ conn' = CallerDisconnect(Begin(conn, "disconnect"), act)
    /\ UNCHANGED others

Disconnect == DisconnectWith(CallbackActs)

\* The transport reports open on the connecting handle.
OpenWith(acts) ==
  /\ conn.eventSource.readyState = "CONNECTING"
  /\ \E act \in acts :
       conn' = onopen([Begin(conn, "open") EXCEPT
                         !.eventSource.readyState = "OPEN"], act)
  /\ UNCHANGED others

\* The transport reports an error; the native EventSource then either
\* retries by itself (CONNECTING) or gives up (FAILED).
ErrorWith(acts) ==
  /\ conn.eventSource.readyState \in {"CONNECTING", "OPEN"}
  /\ conn.fails < MaxFails
  /\ \E next \in {"CONNECTING", "FAILED"}, d, e, t \in acts :
       conn' = onerror([Begin(conn, "error") EXCEPT
                          !.eventSource.readyState = next], d, e, t)
  /\ UNCHANGED others

TransportOpen == OpenWith(CallbackActs)

TransportError == ErrorWith(CallbackActs)

\* The backoff timer armed by scheduleReconnect fires.
TimerFires ==
  /\ conn.reconnectTimeout = "armed"
  /\ conn' = reconnectTimer([Begin(conn, "timer") EXCEPT
                               !.reconnectTimeout = "stale"])
  /\ UNCHANGED others

Next ==
  \/ Connect
  \/ Disconnect
  \/ TransportOpen
  \/ TransportError
  \/ TimerFires

Spec == Init /\ [][Next]_vars

\* ------------------------------------------------- liveness specification
\* autoReconnect enabled and the caller never calls disconnect() (neither
\* directly nor from a callback).  Every armed timer eventually fires and
\* every connecting transport eventually reports open or error.

LiveCallbackActs == CallbackActs \ {"disconnect"}

LiveInit ==
  /\ \E o \in Options : o.autoReconnect /\ conn = NewConnection(o)
  /\ OthersIdle

LiveTransportOpen == OpenWith(LiveCallbackActs)

LiveTransportError == ErrorWith(LiveCallbackActs)

\* A connecting transport attempt reports its outcome.
TransportReports ==
  /\ conn.eventSource.readyState = "CONNECTING"
  /\ (LiveTransportOpen \/ LiveTransportError)

LiveNext ==
  \/ Connect
  \/ LiveTransportOpen
  \/ LiveTransportError
  \/ TimerFires

LiveSpec ==
  /\ LiveInit
  /\ [][LiveNext]_vars
  /\ WF_vars(TimerFires)
  /\ WF_vars(TransportReports)

\* ------------------------------------------------- listener specification
\* Channel listeners and event delivery over the connection's life cycle;
\* the lifecycle callbacks do not call back into the connection here.

InertActs == {"none"}

ListenDisconnect == DisconnectWith(InertActs)

ListenTransportOpen == OpenWith(InertActs)

ListenTransportError == ErrorWith(InertActs)

\* The caller registers a channel callback.
On ==
  /\ conn.regs < MaxRegistrations
  /\ \E ch \in Channels, cb \in Callbacks :
       conn' = on(Begin(conn, "on"), ch, cb)
  /\ UNCHANGED others

\* The open transport delivers one event of some type; `throwers` are the
\* caller's callbacks that throw while handling it.
DeliverWith(channels, throwerSets) ==
  /\ conn.eventSource.readyState = "OPEN"
  /\ \E ch \in channels, data \in Texts, throwers \in throwerSets :
       conn' = dispatchEvent([Begin(conn, "deliver") EXCEPT
                                !.lastEvent = [channel |-> ch, data |-> data],
                                !.throwing = throwers],
                             ch, data)
  /\ UNCHANGED others

Deliver == DeliverWith(Channels, {{}})

ListenNext ==
  \/ Connect
  \/ ListenDisconnect
  \/ ListenTransportOpen
  \/ ListenTransportError
  \/ TimerFires
  \/ On
  \/ Deliver

ListenSpec == Init /\ [][ListenNext]_vars

\* --------------------------------------------- subscription specification
\* on(), once(), the functions on() returns, and delivery to callbacks that
\* may throw, over the life cycle of one auto-reconnecting connection.

SubscribeOptions ==
  [autoReconnect |-> TRUE, reconnectDelay |-> 3000, maxReconnectAttempts |-> 1]

\* A channel only addEventListener handles and the one onmessage handles too.
SubscribeChannels == {"trade", "message"}

\* Which callbacks throw during a delivery: none, or one of them.
ThrowerSets == {{}, {"A"}}

SubscribeInit ==
  /\ conn = NewConnection(SubscribeOptions)
  /\ OthersIdle

\* The life cycle of the connection, with inert callbacks; of the observer
\* fields only those about listeners and the trace are tracked.
SubscribeConnect ==
  /\ conn' = Untracked(CallerConnect(Begin(conn, "connect")))
  /\ UNCHANGED others

SubscribeDisconnect ==
  /\ conn' = Untracked(CallerDisconnect(Begin(conn, "disconnect"), "none"))
  /\ UNCHANGED others

SubscribeTransportOpen ==
  /\ conn.eventSource.readyState = "CONNECTING"
  /\ conn' = Untracked(onopen([Begin(conn, "open") EXCEPT
                                 !.eventSource.readyState = "OPEN"], "none"))
  /\ UNCHANGED others

SubscribeTransportError ==
  /\ conn.eventSource.readyState \in {"CONNECTING", "OPEN"}
  /\ \E next \in {"CONNECTING", "FAILED"} :
       conn' = Untracked(onerror([Begin(conn, "error") EXCEPT
                                    !.eventSource.readyState = next],
                                 "none", "none", "none"))
  /\ UNCHANGED others

SubscribeTimerFires ==
  /\ conn.reconnectTimeout = "armed"
  /\ conn' = Untracked(reconnectTimer([Begin(conn, "timer") EXCEPT
                                         !.reconnectTimeout = "stale"]))
  /\ UNCHANGED others

\* on(channel, cb); the caller keeps the function it returns.
Subscribe ==
  /\ conn.regs < MaxSubscriptions
  /\ \E ch \in SubscribeChannels, cb \in Callbacks :
       conn' = [on(Begin(conn, "on"), ch, cb) EXCEPT
                  !.handles = Append(@, [channel |-> ch, callback |-> cb,
                                         invoked |-> FALSE])]
  /\ UNCHANGED others

\* once(channel, cb)
SubscribeOnce ==
  /\ conn.regs < MaxSubscriptions
  /\ \E ch \in SubscribeChannels, cb \in Callbacks :
       conn' = once(Begin(conn, "once"), ch, cb)
  /\ UNCHANGED others

\* The caller invokes one of the functions on() returned (again, if it
\* was invoked before).
Unsubscribe ==
  /\ \E i \in DOMAIN conn.handles :
       conn' = [unsubscribe(Begin(conn, "unsubscribe"),
                            conn.handles[i].channel, conn.handles[i].callback)
                  EXCEPT !.handles[i].invoked = TRUE]
  /\ UNCHANGED others

DeliverThrowing == DeliverWith(SubscribeChannels, ThrowerSets)

SubscribeNext ==
  \/ SubscribeConnect
  \/ SubscribeDisconnect
  \/ SubscribeTransportOpen
  \/ SubscribeTransportError
  \/ SubscribeTimerFires
  \/ Subscribe
  \/ SubscribeOnce
  \/ Unsubscribe
  \/ DeliverThrowing

SubscribeSpec == SubscribeInit /\ [][SubscribeNext]_vars

\* ------------------------------------------------- registry specification
\* One ClawdVaultStreaming, the connections it creates, and the callers
\* that keep them: get-or-create, the registry's disconnect operations,
\* connect() on a connection, and the transport and timer events of each
\* connection (with inert callbacks).

RegistryInit ==
  /\ conn = NewConnection(RegistryOptions)
  /\ registry = NoRegistry
  /\ auth = NoAuth
  /\ client = NoClient

\* What the on-disconnect callbacks of a connection do while the registry
\* disconnects it: nothing, or call connect() again.
ReconnectingActs == {"none", "connect"}

\* The key has a connection, or the registry may still create one.
CanStream(key) ==
  registry.connections[key] # 0 \/ Len(registry.instances) < MaxInstances

StreamTrades ==
  /\ \E mint \in MintsOf("trades") :
       /\ CanStream(Key("trades", mint))
       /\ registry' = streamTrades(BeginAll(registry, "stream",
                                            Key("trades", mint)), mint)
  /\ UNCHANGED <<conn, auth, client>>

StreamToken ==
  /\ \E mint \in MintsOf("token") :
       /\ CanStream(Key("token", mint))
       /\ registry' = streamToken(BeginAll(registry, "stream",
                                           Key("token", mint)), mint)
  /\ UNCHANGED <<conn, auth, client>>

StreamChat ==
  /\ \E mint \in MintsOf("chat") :
       /\ CanStream(Key("chat", mint))
       /\ registry' = streamChat(BeginAll(registry, "stream",
                                          Key("chat", mint)), mint)
  /\ UNCHANGED <<conn, auth, client>>

RegistryDisconnect ==
  /\ \E type \in Topics, act \in ReconnectingActs :
     \E mint \in MintsOf(type) :
       registry' = registryDisconnect(BeginAll(registry, "disconnect",
                                               Key(type, mint)),
                                      type, mint, act)
  /\ UNCHANGED <<conn, auth, client>>

DisconnectAll ==
  /\ \E act \in ReconnectingActs :
       registry' = disconnectAll(BeginAll(registry, "disconnectAll", ""), act)
  /\ UNCHANGED <<conn, auth, client>>

\* A caller calls connect() on a connection the registry handed out.
InstanceConnect ==
  /\ \E i \in DOMAIN registry.instances :
       registry' = [BeginAll(registry, "instance", "") EXCEPT
                      !.instances[i] = CallerConnect(Begin(@, "connect"))]
  /\ UNCHANGED <<conn, auth, client>>

InstanceOpen ==
  /\ \E i \in DOMAIN registry.instances :
       /\ registry.instances[i].eventSource.readyState = "CONNECTING"
       /\ registry' = [BeginAll(registry, "instance", "") EXCEPT
                         !.instances[i] =
                            onopen([Begin(@, "open") EXCEPT
                                      !.eventSource.readyState = "OPEN"],
                                   "none")]
  /\ UNCHANGED <<conn, auth, client>>

InstanceError ==
  /\ \E i \in DOMAIN registry.instances, next \in {"CONNECTING", "FAILED"} :
       LET c == registry.instances[i]
       IN /\ c.eventSource.readyState \in {"CONNECTING", "OPEN"}
          /\ registry' = [BeginAll(registry, "instance", "") EXCEPT
                            !.instances[i] =
                               onerror([Begin(@, "error") EXCEPT
                                          !.eventSource.readyState = next],
                                       "none", "none", "none")]
  /\ UNCHANGED <<conn, auth, client>>

InstanceTimer ==
  /\ \E i \in DOMAIN registry.instances :
       /\ registry.instances[i].reconnectTimeout = "armed"
       /\ registry' = [BeginAll(registry, "instance", "") EXCEPT
                         !.instances[i] =
                            reconnectTimer([Begin(@, "timer") EXCEPT
                                              !.reconnectTimeout = "stale"])]
  /\ UNCHANGED <<conn, auth, client>>

RegistryNext ==
  \/ StreamTrades
  \/ StreamToken
  \/ StreamChat
  \/ RegistryDisconnect
  \/ DisconnectAll
  \/ InstanceConnect
  \/ InstanceOpen
  \/ InstanceError
  \/ InstanceTimer

RegistrySpec == RegistryInit /\ [][RegistryNext]_vars

\* ----------------------------------------------------- auth specification
\* createAuthSignature called with any action, payload and clock value.

AuthInit ==
  /\ conn = NewConnection(RegistryOptions)
  /\ registry = NoRegistry
  /\ auth = NoAuth
  /\ client = NoClient

CreateAuthSignature ==
  /\ \E action \in Actions, payload \in Payloads, now \in Times :
       auth' = createAuthSignature("W", payload, action, now)
  /\ UNCHANGED <<conn, registry, client>>

AuthNext == CreateAuthSignature

AuthSpec == AuthInit /\ [][AuthNext]_vars

\* --------------------------------------------------- client specification
\* One ClawdVaultClient: its authenticated methods and one unauthenticated
\* one, each answered by the server with any of a few responses, and the
\* setters of signer and session token.

Signers == {"", "W"}

Tokens == {"tok1", "tok2"}

\* Clock values of the client's requests, in two different windows.
ClientTimes == {1000 * 1000, 1299 * 1000}

ResponseBodies ==
  {Object(<<[key |-> "error", value |-> "bad"]>>),
   Object(<<[key |-> "message", value |-> "msg"]>>),
   Object(<<[key |-> "valid", value |-> "false"]>>),
   Object(<<>>),
   JSONNull,
   NotJSON}

Responses == [status : {200, 401, 500}, body : ResponseBodies]

ClientInit ==
  /\ conn = NewConnection(RegistryOptions)
  /\ registry = NoRegistry
  /\ auth = NoAuth
  /\ \E signer \in Signers, token \in {"", "tok1"}, onError \in BOOLEAN :
       client = NewClient(signer, token, onError)

GetChat ==
  /\ \E now \in ClientTimes, response \in Responses :
       client' = getChat(BeginCall(client, "getChat"), now, response)
  /\ UNCHANGED <<conn, registry, auth>>

SendChat ==
  /\ \E now \in ClientTimes, response \in Responses :
       client' = sendChat(BeginCall(client, "sendChat"), ChatPayload,
                          now, response)
  /\ UNCHANGED <<conn, registry, auth>>

AddReaction ==
  /\ \E now \in ClientTimes, response \in Responses :
       client' = addReaction(BeginCall(client, "addReaction"), "m1", "up",
                             now, response)
  /\ UNCHANGED <<conn, registry, auth>>

RemoveReaction ==
  /\ \E now \in ClientTimes, response \in Responses :
       client' = removeReaction(BeginCall(client, "removeReaction"),
                                "m1", "up", now, response)
  /\ UNCHANGED <<conn, registry, auth>>

UpdateProfile ==
  /\ \E now \in ClientTimes, response \in Responses :
       client' = updateProfile(BeginCall(client, "updateProfile"),
                               <<[key |-> "username", value |-> "degen"]>>,
                               now, response)
  /\ UNCHANGED <<conn, registry, auth>>

CreateSession ==
  /\ \E now \in ClientTimes, response \in Responses :
       client' = createSession(BeginCall(client, "createSession"),
                               now, response)
  /\ UNCHANGED <<conn, registry, auth>>

\* validateSession(); the observer notes a token the server reported
\* invalid ({valid: false}).
ValidateSession ==
  /\ \E now \in ClientTimes, response \in Responses :
       LET c == validateSession(BeginCall(client, "validateSession"),
                                now, response)
       IN client' = [c EXCEPT !.invalidated =
                        \/ @
                        \/ /\ c.tokenAtCall # ""
                           /\ c.outcome = "resolved"
                           /\ Property(c.value.props, "valid") = "false"]
  /\ UNCHANGED <<conn, registry, auth>>

SetSessionToken ==
  /\ \E token \in Tokens :
       client' = [setSessionToken(BeginCall(client, "setSessionToken"), token)
                    EXCEPT !.invalidated = FALSE]
  /\ UNCHANGED <<conn, registry, auth>>

SetSigner ==
  /\ client' = [BeginCall(client, "setSigner") EXCEPT !.signer = "W"]
  /\ UNCHANGED <<conn, registry, auth>>

ClientNext ==
  \/ GetChat
  \/ SendChat
  \/ AddReaction
  \/ RemoveReaction
  \/ UpdateProfile
  \/ CreateSession
  \/ ValidateSession
  \/ SetSessionToken
  \/ SetSigner

ClientSpec == ClientInit /\ [][ClientNext]_vars

\* ------------------------------------------------------------ properties

CallbackEvents == {"onConnect", "onDisconnect", "onError", "onError:max"}

\* No handle is created or timer armed after a disconnect() call of the
\* same operation, unless connect() was called in between.
QuietAfterDisconnect(trace) ==
  \A i, j \in DOMAIN trace :
    (i < j /\ trace[i] = "call:disconnect" /\ trace[j] \in {"create", "setTimeout"})
      => \E k \in DOMAIN trace : i < k /\ k < j /\ trace[k] = "call:connect"

\* C1: at most one transport handle that was created and not yet closed
\* exists at any time, and the reconnect timer closes the previous handle
\* before it creates the next one.
C1_OneLiveHandle ==
  /\ LiveHandles(conn) <= 1
  /\ conn.lastOp = "timer" => conn.trace = <<"close", "create">>

C1_Witness ==
  /\ conn.lastOp = "timer"
  /\ "create" \in Events(conn)
  /\ conn.eventSource.readyState = "CONNECTING"
  /\ conn.scheduled = 2

\* C2: on-disconnect callbacks are invoked only if the connection reached
\* Open since the previous on-disconnect notification; a connection that
\* never opened emits no on-disconnect however often it fails.
C2_DisconnectOnlyAfterOpen ==
  /\ ~conn.discWithoutOpen
  /\ ~conn.everOpened => ~conn.everDisconnected

C2_Witness ==
  /\ ~conn.everOpened
  /\ conn.lastOp = "error"
  /\ conn.fails >= 2
  /\ ~conn.everDisconnected

\* C3 as stated: with maxReconnectAttempts = N >= 1 and autoReconnect, after
\* an open followed by N consecutive transport failures (no caller action)
\* no reconnect is scheduled and the terminal error was emitted exactly once.
C3_TerminalAfterNFailures ==
  ( /\ conn.options.autoReconnect
    /\ conn.options.maxReconnectAttempts >= 1
    /\ conn.clean
    /\ conn.lastOp = "error"
    /\ conn.fails = conn.options.maxReconnectAttempts )
  => (conn.reconnectTimeout # "armed" /\ conn.terminals = 1)

\* C3 as amended: the terminal error comes with failure N+1.  After an open
\* followed by k <= N consecutive failures, k reconnect attempts have been
\* scheduled and no terminal error emitted; after N+1 failures exactly N
\* attempts have been scheduled, no timer is armed and the terminal error
\* was emitted exactly once.
C3_TerminalAfterNPlusOneFailures ==
  (conn.options.autoReconnect /\ conn.clean)
  => /\ conn.fails <= conn.options.maxReconnectAttempts
          => /\ conn.terminals = 0
             /\ conn.scheduled = conn.fails
             /\ conn.reconnectAttempts = conn.fails
     /\ conn.fails = conn.options.maxReconnectAttempts + 1
          => /\ conn.terminals = 1
             /\ conn.scheduled = conn.options.maxReconnectAttempts
             /\ conn.reconnectTimeout # "armed"

C3_Witness ==
  /\ conn.options.autoReconnect
  /\ conn.options.maxReconnectAttempts = 2
  /\ conn.clean
  /\ conn.fails = 3
  /\ conn.terminals = 1
  /\ conn.lastOp = "error"

\* C4: after the terminal error, and until the caller calls connect() or
\* disconnect(), the terminal error is not emitted again and no backoff
\* timer is armed again.
C4_ExhaustionSurfacedOnce == ~conn.repeatTerminal /\ ~conn.rearmed

\* C5: after disconnect() and until the caller's next connect() the
\* connection holds no handle and no armed timer, manuallyClosed is set,
\* and no timer fires, no transport is created and no reconnect is
\* scheduled (also when disconnect() ran inside a callback of onerror).
C5_QuietAfterDisconnect ==
  /\ QuietAfterDisconnect(conn.trace)
  /\ conn.closedByCaller
       => /\ ~HasSource(conn)
          /\ LiveHandles(conn) = 0
          /\ conn.reconnectTimeout = "null"
          /\ conn.isManuallyDisconnected
          /\ ~ENABLED TimerFires
          /\ ~ENABLED TransportOpen
          /\ ~ENABLED TransportError

C5_Witness ==
  /\ conn.closedByCaller
  /\ conn.lastOp = "error"
  /\ conn.options.autoReconnect
  /\ conn.reconnectAttempts < conn.options.maxReconnectAttempts
  /\ "onDisconnect" \in Events(conn)

\* C6: disconnect() right after disconnect() invokes no callback and
\* leaves the connection's fields unchanged.
C6_DisconnectIdempotent ==
  (conn.lastOp = "disconnect" /\ "call:connect" \notin Events(conn))
  => \A act \in CallbackActs :
       LET again == CallerDisconnect(Begin(conn, "disconnect"), act)
       IN /\ Program(again) = Program(conn)
          /\ Events(again) \cap CallbackEvents = {}

C6_Witness ==
  /\ conn.lastOp = "disconnect"
  /\ "call:connect" \notin Events(conn)
  /\ "onDisconnect" \in Events(conn)
  /\ "clearTimeout" \in Events(conn)

\* C7: in the exhausted state a caller's connect() starts a new transport
\* attempt (takes the connection back to Connecting).
C7_ConnectRestartsExhausted ==
  Exhausted(conn)
  => LET after == CallerConnect(Begin(conn, "connect"))
     IN /\ "create" \in Events(after)
        /\ after.eventSource.readyState = "CONNECTING"

\* C8: on a transport error (attempts remaining, callbacks inert) a
\* reconnect is scheduled iff autoReconnect and not manuallyClosed;
\* otherwise the connection is Closed as after disconnect(): no timer, no
\* handle, and a later connect() starts a fresh attempt.
C8_ErrorSchedulesOrCloses ==
  ( /\ conn.lastOp = "error"
    /\ Events(conn) \cap {"call:connect", "call:disconnect", "onError:max"} = {} )
  => IF conn.options.autoReconnect /\ ~conn.isManuallyDisconnected
     THEN "setTimeout" \in Events(conn)
     ELSE /\ "setTimeout" \notin Events(conn)
          /\ conn.reconnectTimeout # "armed"
          /\ ~HasSource(conn)
          /\ "create" \in Events(CallerConnect(Begin(conn, "connect")))

\* C9: with autoReconnect and no disconnect(), a connection whose transport
\* has failed eventually is Open again or has emitted the terminal error.
C9_FailureLeadsToOpenOrTerminal ==
  (conn.fails > 0 /\ ~conn.isConnected /\ conn.terminals = 0)
    ~> (conn.isConnected \/ conn.terminals > 0)

C9_Witness ==
  /\ conn.lastOp = "timer"
  /\ conn.fails = 2
  /\ conn.terminals = 0
  /\ conn.eventSource.readyState = "CONNECTING"

\* C10: when two distinct callbacks are registered on a channel and the
\* transport delivers one (well-formed) event on it, both callbacks are
\* invoked, each exactly once.
C10_EachListenerOnce ==
  ( /\ conn.lastOp = "deliver"
    /\ JSONParse(conn.lastEvent.data).ok
    /\ conn.listeners[conn.lastEvent.channel].set = Callbacks )
  => \A cb \in Callbacks : Len(conn.received[cb]) = 1

\* C18: the delay armed for the Nth consecutive reconnect attempt since the
\* last open is reconnectDelay * 1.5^(N-1): the first is reconnectDelay and
\* each further one is 1.5 times the previous (fractions cross-multiplied).
C18_BackoffDelay ==
  "setTimeout" \in Events(conn)
  => LET N == conn.scheduled
         d == conn.delay
         prev == conn.prevDelay
         base == conn.options.reconnectDelay
     IN /\ N >= 1
        /\ d.num * Pow(2, N - 1) = base * Pow(3, N - 1) * d.den
        /\ N = 1 => d.num = base * d.den
        /\ N >= 2 => 2 * d.num * prev.den = 3 * prev.num * d.den

C18_Witness ==
  /\ "setTimeout" \in Events(conn)
  /\ conn.everOpened
  /\ conn.scheduled = 2
  /\ conn.options.reconnectDelay = 100
  /\ conn.delay = [num |-> 300, den |-> 2]
  /\ conn.prevDelay = [num |-> 100, den |-> 1]

\* The values a callback received in the last delivery are all the decoded
\* payload of the delivered text.
ReceivedDecoded(s, cb) ==
  /\ Len(s.received[cb]) >= 1
  /\ \A i \in DOMAIN s.received[cb] :
       s.received[cb][i] = JSONParse(s.lastEvent.data).value

\* C11: a callback registered with on(channel, cb), before connect() or on
\* a live handle, receives the decoded payload of every well-formed event
\* delivered afterwards on that channel, by the current transport and by
\* every later one.
C11_RegisteredReceivesEvery ==
  (conn.lastOp = "deliver" /\ JSONParse(conn.lastEvent.data).ok)
  => \A cb \in Callbacks \cap conn.listeners[conn.lastEvent.channel].set :
       ReceivedDecoded(conn, cb)

\* What C11 holds for: deliveries in which no callback throws.
C11_ReceivesWhenNoneThrows ==
  (conn.lastOp = "deliver" /\ JSONParse(conn.lastEvent.data).ok
     /\ conn.throwing = {})
  => \A cb \in Callbacks \cap conn.listeners[conn.lastEvent.channel].set :
       ReceivedDecoded(conn, cb)

\* C12: the function on(channel, cb) returned removes exactly that
\* registration (cb leaves the channel's set, the other callbacks of the
\* channel and the other channels keep theirs), and invoking a function
\* that was invoked before changes no listener set, also when the same
\* callback was registered again in between.
C12_UnsubscribeExactlyOnce ==
  \A i \in DOMAIN conn.handles :
    LET h == conn.handles[i]
        after == unsubscribe(conn, h.channel, h.callback)
    IN /\ after.listeners[h.channel].set =
            conn.listeners[h.channel].set \ {h.callback}
       /\ \A ch \in Channels \ {h.channel} :
            after.listeners[ch] = conn.listeners[ch]
       /\ h.invoked => after.listeners = conn.listeners

\* C13: the callback of a once() registration is invoked at most once over
\* the life of the connection, and the registration has left the channel's
\* set when the callback is invoked (and stays out).
C13_OnceAtMostOnce ==
  \A k \in DOMAIN conn.onces :
    /\ conn.onces[k].calls <= 1
    /\ ~conn.onces[k].early
    /\ conn.onces[k].calls = 1
         => \A ch \in Channels : WrapperName(k) \notin conn.listeners[ch].set

\* A once() callback on the channel that is handled twice per event was
\* invoked by this delivery, once.
C13_Witness ==
  /\ conn.lastOp = "deliver"
  /\ conn.lastEvent = [channel |-> "message", data |-> "{\"id\":\"t1\"}"]
  /\ conn.eventSource.attached["message"] = 1
  /\ Len(conn.onces) = 1
  /\ conn.onces[1].calls = 1
  /\ conn.received[conn.onces[1].callback] = <<[id |-> "t1"]>>

\* The event (ch, data) arrives on the handle of s while `throwers` throw.
Arrive(s, ch, data, throwers) ==
  dispatchEvent([Begin(s, "deliver") EXCEPT
                   !.lastEvent = [channel |-> ch, data |-> data],
                   !.throwing = throwers], ch, data)

\* C14: a delivery whose text is not valid JSON invokes no channel listener
\* and no on-error or on-disconnect callback, leaves the connection's fields
\* unchanged, schedules no reconnect, and a well-formed message after it is
\* delivered as it would have been without it.
C14_MalformedDropped ==
  [][ (conn'.lastOp = "deliver" /\ ~JSONParse(conn'.lastEvent.data).ok)
      => /\ Program(conn') = Program(conn)
         /\ conn'.trace = <<>>
         /\ \A cb \in Callbacks : conn'.received[cb] = <<>>
         /\ conn'.onces = conn.onces
         /\ \A ch \in Channels, data \in Texts, throwers \in ThrowerSets :
              Arrive(conn', ch, data, throwers).received
                = Arrive(conn, ch, data, throwers).received ]_vars

C14_Witness ==
  /\ conn.lastOp = "deliver"
  /\ ~JSONParse(conn.lastEvent.data).ok
  /\ conn.lastEvent.channel = "message"
  /\ conn.listeners["message"].order = <<"A", "once1">>
  /\ conn.isConnected

\* As after disconnect(): no handle, none left unclosed, no timer, and
\* manuallyClosed set.
Disconnected(c) ==
  /\ ~HasSource(c)
  /\ LiveHandles(c) = 0
  /\ c.reconnectTimeout = "null"
  /\ c.isManuallyDisconnected
  /\ ~c.isConnected

\* C15: get-or-create is idempotent.  A stream call for a key that was
\* handed a connection, with no registry disconnect of the key since,
\* returns that same connection; otherwise it returns a connection created
\* by this call, which has no transport handle and is not connected; and no
\* connection is ever returned for two different (topic, mint) pairs.
C15_GetOrCreateIdempotent ==
  /\ registry.lastOp = "stream"
       => /\ registry.returned \in DOMAIN registry.instances
          /\ registry.prior # 0 => registry.returned = registry.prior
          /\ registry.prior = 0
               => /\ registry.returned = Len(registry.instances)
                  /\ registry.handedFor[registry.returned]
                       = {registry.lastKey}
                  /\ Program(registry.instances[registry.returned])
                       = Program(NewConnection(registry.options))
  /\ \A i \in DOMAIN registry.handedFor :
       Cardinality(registry.handedFor[i]) <= 1

\* A second call for the key of a connected stream returns it, while
\* another key has its own connection.
C15_Witness ==
  /\ registry.lastOp = "stream"
  /\ registry.prior # 0
  /\ registry.returned = registry.prior
  /\ registry.instances[registry.returned].isConnected
  /\ Len(registry.instances) = 2
  /\ Cardinality(Entries(registry)) = 2

\* C16: registry disconnect(topic, mint) of a key with an entry disconnects
\* its connection (handle closed, timer cancelled; unless an on-disconnect
\* callback called connect() again) and removes the entry, so that the
\* next get-or-create of the key creates a connection; with no entry
\* nothing changes; every other entry and connection is unchanged.
C16_RegistryDisconnect ==
  [][ registry'.lastOp = "disconnect"
      => LET key == registry'.lastKey
             id == registry.connections[key]
         IN /\ \A k \in Keys \ {key} :
                 registry'.connections[k] = registry.connections[k]
            /\ \A i \in DOMAIN registry.instances :
                 i # id => Program(registry'.instances[i])
                             = Program(registry.instances[i])
            /\ Len(registry'.instances) = Len(registry.instances)
            /\ registry'.connections[key] = 0
            /\ GetOrCreate(registry', key).returned
                 = Len(registry.instances) + 1
            /\ id # 0
                 => LET c == registry'.instances[id]
                    IN /\ HasSource(registry.instances[id])
                            => "close" \in Events(c)
                       /\ registry.instances[id].reconnectTimeout = "armed"
                            => "clearTimeout" \in Events(c)
                       /\ "call:connect" \notin Events(c) => Disconnected(c) ]_vars

\* A reconnecting stream was removed while another entry stays connected.
C16_Witness ==
  /\ registry.lastOp = "disconnect"
  /\ registry.connections[registry.lastKey] = 0
  /\ \E i, j \in DOMAIN registry.instances :
       /\ i \notin Entries(registry)
       /\ registry.instances[i].lastOp = "disconnect"
       /\ {"close", "clearTimeout"} \subseteq Events(registry.instances[i])
       /\ Disconnected(registry.instances[i])
       /\ j \in Entries(registry)
       /\ registry.instances[j].isConnected

C19_WindowQuantization ==
  auth.phase = "signed"
  => LET t1 == Timestamp(auth.now)
     IN /\ \A now \in Times :
             LET t2 == Timestamp(now)
             IN (t1 \div 300 = t2 \div 300)
                  <=> Message(auth.action, auth.payload, now) = auth.message
        /\ auth.message
             = Message(auth.action, auth.payload, (t1 \div 300) * 300 * 1000)

\* A message built in the last second of a window.
C19_Witness ==
  /\ auth.phase = "signed"
  /\ auth.now = 1499999
  /\ auth.action = ""
  /\ auth.payload = <<[key |-> "action", value |-> "react"],
                      [key |-> "emoji", value |-> "up"]>>
  /\ auth.message = "ClawdVault:react:1200:{\"action\":\"react\",\"emoji\":\"up\"}"

\* C20 as stated: the chat messages built at 1000 and at 1299 are identical
\* and the one built at 1300 differs from them.
C20_SameWindow1000And1299 ==
  (auth.phase = "signed" /\ auth.action = "chat" /\ auth.payload = ChatPayload)
  => /\ Timestamp(auth.now) = 1299
          => auth.message = Message("chat", ChatPayload, 1000 * 1000)
     /\ Timestamp(auth.now) = 1300
          => /\ auth.message # Message("chat", ChatPayload, 1000 * 1000)
             /\ auth.message # Message("chat", ChatPayload, 1299 * 1000)

\* C20 as amended: 1000 lies in the window starting at 900, 1299 and 1300
\* both in the one starting at 1200; the messages built at 1299 and 1300
\* are identical and the one built at 1000 differs from them.
C20_SameWindow1299And1300 ==
  (auth.phase = "signed" /\ auth.action = "chat" /\ auth.payload = ChatPayload)
  => /\ Timestamp(auth.now) = 1000
          => auth.message
               = "ClawdVault:chat:900:{\"mint\":\"M\",\"message\":\"hi\"}"
     /\ Timestamp(auth.now) \in {1299, 1300}
          => auth.message
               = "ClawdVault:chat:1200:{\"mint\":\"M\",\"message\":\"hi\"}"

C20_Witness ==
  /\ auth.phase = "signed"
  /\ auth.action = "chat"
  /\ auth.payload = ChatPayload
  /\ auth.now = 1300 * 1000
  /\ auth.message = Message("chat", ChatPayload, 1299 * 1000)
  /\ auth.message # Message("chat", ChatPayload, 1000 * 1000)

\* The last client call made a request.
Requested(c) == c.sent.method # ""

\* No wallet, signature or action header.
NoSignatureHeaders(headers) ==
  headers.XWallet = "" /\ headers.XSignature = <<>> /\ headers.XAction = ""

\* C21: a request with auth requested while a session token is cached
\* carries `Authorization: Bearer <token>`, does not invoke the signer and
\* carries no wallet, signature or action header; a request without the
\* auth flag carries no auth header.
C21_BearerPrecedence ==
  Requested(client)
  => /\ (client.auth /\ client.tokenAtCall # "")
          => /\ client.sent.headers.Authorization
                  = "Bearer " \o client.tokenAtCall
             /\ client.signerCalls = 0
             /\ NoSignatureHeaders(client.sent.headers)
     /\ ~client.auth
          => /\ client.sent.headers.Authorization = ""
             /\ client.signerCalls = 0
             /\ NoSignatureHeaders(client.sent.headers)

\* A client with signer and token sends a chat message.
C21_Witness ==
  /\ client.lastOp = "sendChat"
  /\ client.signer = "W"
  /\ client.tokenAtCall = "tok2"
  /\ client.sent.headers.Authorization = "Bearer tok2"
  /\ client.signerCalls = 0
  /\ client.outcome = "resolved"

\* The request carries the wallet and signature of a signature computed
\* for it, and the action header if an action name was supplied.
SignatureSent(c) ==
  /\ c.signerCalls = 1
  /\ c.signed.phase = "signed"
  /\ c.sent.headers.XWallet = c.signer
  /\ c.sent.headers.XSignature = c.signed.signature
  /\ c.action # "" => c.sent.headers.XAction = c.action

\* C22: every request with auth requested, no session token cached and a
\* signer available (sendChat, addReaction, removeReaction, updateProfile,
\* createSession, validateSession) invokes the signature protocol and
\* carries the wallet and signature headers, plus the action header when
\* an action name is supplied.
C22_SignatureFallback ==
  (Requested(client) /\ client.auth /\ client.tokenAtCall = ""
     /\ client.signer # "")
  => SignatureSent(client)

\* What C22 holds for: the methods that pass a body.
C22_SignatureFallbackWithBody ==
  (Requested(client) /\ client.auth /\ client.tokenAtCall = ""
     /\ client.signer # "" /\ client.sent.body # "")
  => SignatureSent(client)

\* The structured error of a non-2xx response: the status and the parsed
\* body, or the status text if the body is not JSON.
ErrorCarriesResponse(c) ==
  /\ c.outcome = "rejected"
  /\ c.error.status = c.response.status
  /\ c.error.response =
       IF c.response.body.type = "text"
       THEN Object(<<[key |-> "error",
                      value |-> StatusText(c.response.status)]>>)
       ELSE c.response.body

\* C23: every non-2xx response rejects the request with an error carrying
\* the status and the parsed body (or status text); a configured onError
\* hook is invoked exactly once, with that error, before it is raised, and
\* never for a 2xx response.
C23_ErrorTranslation ==
  Requested(client)
  => /\ ~Ok(client.response)
          => /\ ErrorCarriesResponse(client)
             /\ client.onError
                  => /\ client.hookCalls = <<client.error>>
                     /\ client.steps = <<"onError", "throw">>
     /\ Ok(client.response) => client.hookCalls = <<>>

\* What C23 holds for: response bodies other than the JSON value null.
C23_ErrorTranslationNonNull ==
  (Requested(client) /\ client.response.body # JSONNull)
  => /\ ~Ok(client.response)
          => /\ ErrorCarriesResponse(client)
             /\ client.onError
                  => /\ client.hookCalls = <<client.error>>
                     /\ client.steps = <<"onError", "throw">>
     /\ Ok(client.response) => client.hookCalls = <<>>

\* C24: createSession() on a client with a signer signs the session
\* message with the wallet and sends the wallet and signature headers, also
\* when a session token is set and validateSession() reported it invalid.
C24_CreateSessionSigns ==
  (client.lastOp = "createSession" /\ client.signer # "")
  => /\ SignatureSent(client)
     /\ client.signed.message = Message("session", <<>>, client.signed.now)

\* What C24 holds for: a client without a session token.
C24_CreateSessionSignsWithoutToken ==
  (client.lastOp = "createSession" /\ client.signer # ""
     /\ client.tokenAtCall = "")
  => /\ SignatureSent(client)
     /\ client.signed.message = Message("session", <<>>, client.signed.now)

\* The refresh flow: createSession() after the token was reported invalid.
C24_RefreshFlowSigns ==
  (client.lastOp = "createSession" /\ client.signer # ""
     /\ client.invalidated)
  => SignatureSent(client)

\* How many times event e occurs in a trace.
CountOf(trace, e) == Cardinality({i \in DOMAIN trace : trace[i] = e})

\* C25: 0 <= reconnectAttempts <= maxReconnectAttempts in every state; the
\* transport reporting open sets the counter to 0, every reconnect attempt
\* scheduled (setTimeout armed by scheduleReconnect) adds exactly 1, and
\* connect(), disconnect(), the timer, on() and event delivery leave it
\* unchanged.
C25_AttemptCounter ==
  /\ [](conn.reconnectAttempts \in 0..conn.options.maxReconnectAttempts)
  /\ [][/\ conn'.lastOp = "open" => conn'.reconnectAttempts = 0
        /\ conn'.lastOp = "error"
             => /\ CountOf(conn'.trace, "setTimeout") <= 1
                /\ conn'.reconnectAttempts
                     = conn.reconnectAttempts
                         + CountOf(conn'.trace, "setTimeout")
        /\ conn'.lastOp \notin {"open", "error"}
             => /\ conn'.reconnectAttempts = conn.reconnectAttempts
                /\ "setTimeout" \notin Events(conn')]_vars

\* After an open and with listeners registered, an error schedules the
\* attempt that raises the counter to its maximum.
C25_Witness ==
  /\ conn.lastOp = "error"
  /\ conn.everOpened
  /\ conn.regs > 0
  /\ "setTimeout" \in Events(conn)
  /\ conn.reconnectAttempts = MaxAttemptsBound
  /\ conn.options.maxReconnectAttempts = MaxAttemptsBound

\* C26: connect() called while the connection holds a transport handle
\* (connecting, open, or waiting for the backoff timer) creates no
\* transport, fires no callback and leaves the handle, the timer, the
\* attempt counter, isManuallyDisconnected, isConnected and the listener
\* sets unchanged.
C26_ConnectWithHandleNoOp ==
  [][(conn'.lastOp = "connect" /\ HasSource(conn))
       => /\ Program(conn') = Program(conn)
          /\ conn'.trace = <<"call:connect">>
          /\ LiveHandles(conn') = LiveHandles(conn)]_vars

\* connect() was called with listeners registered while the failed handle
\* waits for the backoff timer.
C26_Witness ==
  /\ conn.lastOp = "connect"
  /\ conn.trace = <<"call:connect">>
  /\ HasSource(conn)
  /\ conn.reconnectTimeout = "armed"
  /\ conn.reconnectAttempts > 0
  /\ conn.regs > 0

\* C27: whenever connected is true the connection holds a transport handle
\* and that handle has reported open and has not since reported an error or
\* been closed; connected is false whenever the handle is absent or still
\* connecting.
C27_ConnectedMeansOpenHandle ==
  /\ conn.isConnected => conn.eventSource.readyState = "OPEN"
  /\ conn.eventSource.readyState \in {"NULL", "CONNECTING"}
       => ~conn.isConnected

\* What C27 holds for: a connection without automatic reconnection, where
\* no timer replaces the handle.
C27_ConnectedWithoutAutoReconnect ==
  (~conn.options.autoReconnect /\ conn.isConnected)
  => conn.eventSource.readyState = "OPEN"

RECURSIVE NotifiesInTurn(_, _, _)
\* The on-connect and on-disconnect notifications of a trace, from its
\* i-th event on, alternate; `open` says that the last notification before
\* them was on-connect.
NotifiesInTurn(trace, i, open) ==
  IF i > Len(trace) THEN TRUE
  ELSE CASE trace[i] = "onConnect"
              -> ~open /\ NotifiesInTurn(trace, i + 1, TRUE)
         [] trace[i] = "onDisconnect"
              -> open /\ NotifiesInTurn(trace, i + 1, FALSE)
         [] OTHER -> NotifiesInTurn(trace, i + 1, open)

\* C28: on-connect and on-disconnect notifications strictly alternate,
\* starting with on-connect: every operation's notifications continue the
\* alternation from the last notification before it.
C28_NotificationsAlternate ==
  [][NotifiesInTurn(conn'.trace, 1, conn.openedSince)]_vars

\* The step delivers an event to a channel on which a registered callback
\* throws.
ListenerThrows ==
  /\ conn'.lastOp = "deliver"
  /\ conn'.throwing \cap conn.listeners[conn'.lastEvent.channel].set # {}

\* The step changes no connection state and notifies nobody of an error,
\* a disconnect or a reconnect.
ConnectionUntouched ==
  /\ conn'.eventSource = conn.eventSource
  /\ conn'.isConnected = conn.isConnected
  /\ conn'.isManuallyDisconnected = conn.isManuallyDisconnected
  /\ conn'.reconnectAttempts = conn.reconnectAttempts
  /\ conn'.reconnectTimeout = conn.reconnectTimeout
  /\ Events(conn') \cap {"onError", "onError:max", "onDisconnect",
                         "setTimeout", "close", "create"} = {}

\* C29: when a callback registered on a channel throws while handling a
\* well-formed event, every other callback registered on that channel
\* still receives the event, the connection state is unchanged and neither
\* on-error nor a reconnect is triggered.
C29_ThrowingListenerIsolated ==
  [][(ListenerThrows /\ JSONParse(conn'.lastEvent.data).ok)
       => /\ \A cb \in (Callbacks \cap
                          conn.listeners[conn'.lastEvent.channel].set)
                         \ conn'.throwing :
               ReceivedDecoded(conn', cb)
          /\ ConnectionUntouched]_vars

\* What C29 holds for: the connection state and the error notifications.
C29_ThrowerLeavesConnectionAlone ==
  [][ListenerThrows => ConnectionUntouched]_vars

\* The connection holds a transport handle or a pending backoff timer.
Live(c) == HasSource(c) \/ c.reconnectTimeout = "armed"

\* C30: every connection the registry created that holds a transport
\* handle or a pending backoff timer is currently an entry of the
\* registry (so disconnectAll() closes every live stream handed out).
C30_LiveConnectionsAreEntries ==
  \A i \in DOMAIN registry.instances :
    Live(registry.instances[i]) => i \in Entries(registry)

\* What C30 holds for: right after disconnectAll(), the connections that
\* were entries are not live, unless an on-disconnect callback called
\* connect() on them again.
C30_SweptAreClosed ==
  (registry.lastOp = "disconnectAll")
  => \A i \in DOMAIN registry.instances :
       registry.instances[i].lastOp = "disconnect"
       => \/ ~Live(registry.instances[i])
          \/ "call:connect" \in Events(registry.instances[i])

====
